---------------------------- MODULE Spec2Model ----------------------------
(***************************************************************************)
(* AniTracker (src/main.py): the add_split_expense tool over its Postgres  *)
(* tables.  Every await of the handler is one action; the code between two *)
(* awaits runs without interruption (one asyncio event loop) and is part   *)
(* of the action of the await that precedes it.  Each call runs on its own *)
(* pooled connection inside one transaction (READ COMMITTED, the server's  *)
(* default): a transaction's writes are kept in tx[c] until COMMIT, a      *)
(* statement sees the committed rows and its own transaction's rows, and a *)
(* write that conflicts with another open transaction's write waits.       *)
(*                                                                         *)
(* Money is counted in cents (amount 30 is 3000).  Names are sequences of  *)
(* one-character strings so that strip(), lower() and LIKE are computed.   *)
(***************************************************************************)
EXTENDS Integers, Sequences, FiniteSets, TLC

\* ------------------------------------------------------------------ bounds
\* tool calls started over one run of the process
MaxCalls == 2
\* longest participants list, and largest splits dict, a caller passes
MaxParticipants == 2

\* connections that run a call at the same time (the pool allows 5)
Conns == {1, 2}

\* ------------------------------------------------------------------- text
SP == " "

RECURSIVE LStrip(_)
\* str.strip(), leading part
LStrip(s) == IF s # <<>> /\ Head(s) = SP THEN LStrip(Tail(s)) ELSE s

RECURSIVE RStrip(_)
\* str.strip(), trailing part
RStrip(s) ==
  IF s # <<>> /\ s[Len(s)] = SP THEN RStrip(SubSeq(s, 1, Len(s) - 1)) ELSE s

\* name.strip()
Strip(s) == RStrip(LStrip(s))

ToLower == ("F" :> "f") @@ ("U" :> "u") @@ ("O" :> "o")

\* SQL lower() / str.lower(), character by character
Lower(s) == [i \in 1..Len(s) |-> IF s[i] \in DOMAIN ToLower THEN ToLower[s[i]] ELSE s[i]]

\* lower(name) LIKE lower('%' || pat || '%'): pat occurs in name (pat holds
\* no % or _ here)
Contains(name, pat) ==
  \E i \in 0..(Len(name) - Len(pat)) :
     SubSeq(Lower(name), i + 1, i + Len(pat)) = Lower(pat)

\* ---------------------------------------------------------------- numbers
\* round(x, 2) of a quotient of cents: to the nearest cent, a tie to the even
\* cent (no amount below produces a tie, where the float's binary expansion
\* would decide)
RoundDiv(num, den) ==
  LET q == num \div den
      r == num % den
  IN  IF 2 * r < den THEN q
      ELSE IF 2 * r > den THEN q + 1
      ELSE IF q % 2 = 0 THEN q ELSE q + 1


\* ------------------------------------------------------------ Python dicts
\* A dict is the sequence of its items, [key, val], in insertion order; its
\* keys are distinct.
DictKeys(d) == {d[i].key : i \in 1..Len(d)}

\* d[k] = v: a present key keeps its place, a new one goes last
DictSet(d, k, v) ==
  IF k \in DictKeys(d)
  THEN [i \in 1..Len(d) |-> IF d[i].key = k THEN [key |-> k, val |-> v] ELSE d[i]]
  ELSE Append(d, [key |-> k, val |-> v])

RECURSIVE EqualMapFrom(_, _, _)
EqualMapFrom(ps, share, acc) ==
  IF ps = <<>> THEN acc
  ELSE EqualMapFrom(Tail(ps), share, DictSet(acc, Head(ps), share))

\* {p: share for p in participants}
EqualMap(participants, share) == EqualMapFrom(participants, share, <<>>)

\* {u: round(float(amount) * p / 100, 2) for u, p in splits.items()}
PercentMap(amount, splits) ==
  [i \in 1..Len(splits) |->
     [key |-> splits[i].key, val |-> RoundDiv(amount * splits[i].val, 100)]]

\* The SPLIT LOGIC block: the split map, or the exception it raises.  splits
\* is <<>> for both None and {} ("if not splits").
SplitLogic(amount, split_type, participants, splits) ==
  IF split_type = "equal"
  THEN IF Len(participants) = 0
       THEN [err |-> "ZeroDivisionError", map |-> <<>>]
       ELSE [err |-> "",
             map |-> EqualMap(participants, RoundDiv(amount, Len(participants)))]
  ELSE IF split_type = "unequal"
  THEN IF splits = <<>>
       THEN [err |-> "MissingSplitDetail", map |-> <<>>]
       ELSE [err |-> "", map |-> splits]
  ELSE IF split_type = "percent"
  THEN IF splits = <<>>
       THEN [err |-> "MissingSplitDetail", map |-> <<>>]
       ELSE [err |-> "", map |-> PercentMap(amount, splits)]
  ELSE [err |-> "InvalidSplitPolicy", map |-> <<>>]

\* ------------------------------------------------------------------ inputs
\* What callers pass.  A profile P names the values a specification draws
\* from: payers (paid_by), lists (participants), categories, amounts, types
\* and dicts (splits).
ParticipantLists(names) == UNION {[1..k -> names] : k \in 0..MaxParticipants}

\* the splits argument: None, or a dict from names to amounts or percentages
SplitDicts(keys, shares) ==
  {<<>>} \cup
  {d \in UNION {[1..k -> [key : keys, val : shares]] : k \in 1..MaxParticipants} :
     \A i, j \in 1..Len(d) : i # j => d[i].key # d[j].key}

\* ------------------------------------------------------------------- state
VARIABLES
  users,            \* committed rows of table users: [id, name]
  categories,       \* committed rows of table categories: [id, name]
  expenses,         \* committed rows of table expenses
  expense_splits,   \* committed rows of table expense_splits
  balances,         \* committed rows of table balances
  users_id_seq,     \* the sequence behind users.id (SERIAL)
  expenses_id_seq,  \* the sequence behind expenses.id (SERIAL)
  tx,               \* per connection: the open transaction's uncommitted rows
  pc,               \* per connection: the await the call is suspended at
  loc,              \* per connection: the call's arguments and local variables
  started,          \* tool calls started so far
  returned,         \* history: every <<name, id>> get_user_id has ever returned
  POOL,             \* the global POOL: 0 is None, n the n-th pool created
  DB_READY,         \* the global DB_READY
  schema,           \* the tables of CREATE_SQL exist
  categories_id_seq,\* the sequence behind categories.id (SERIAL)
  gp,               \* per call: the tool called and its place in get_pool
  result            \* per call: what the last read tool run there returned

\* what get_pool sets up
boot == <<POOL, DB_READY, schema, categories_id_seq>>

vars == <<users, categories, expenses, expense_splits, balances, users_id_seq,
          expenses_id_seq, tx, pc, loc, started, returned, boot, gp, result>>

db == <<users, categories, expenses, expense_splits, balances>>

NoTx == [users |-> {}, expenses |-> {}, splits |-> {}, balances |-> {}]

NoLoc ==
  [paid_by |-> <<>>, payer_id |-> 0, participants |-> <<>>, idx |-> 0,
   participant_ids |-> <<>>, category |-> <<>>, cat_id |-> 0, amount |-> 0,
   split_type |-> "", split_map |-> <<>>, expense_id |-> 0, k |-> 0, err |-> ""]

\* a call that is not inside get_pool
NoGet == [tool |-> "", at |-> "none", k |-> 0]

NoResult == [tool |-> "", rows |-> <<>>]

\* the seed categories (categories.json), inserted by get_pool
SeedCategories ==
  {[id |-> 1, name |-> <<"F", "o", "o", "d">>],
   [id |-> 2, name |-> <<"F", "u", "e", "l">>]}

\* get_pool has run: one pool, the schema and the seed categories in place
Booted ==
  /\ POOL = 1
  /\ DB_READY = TRUE
  /\ schema = TRUE
  /\ categories_id_seq = Cardinality(SeedCategories)
  /\ gp = [c \in Conns |-> NoGet]
  /\ result = [c \in Conns |-> NoResult]

\* a first process start, once get_pool has run: the tables are empty but for
\* the seed categories
Init ==
  /\ users = {}
  /\ categories = SeedCategories
  /\ expenses = {}
  /\ expense_splits = {}
  /\ balances = {}
  /\ users_id_seq = 0
  /\ expenses_id_seq = 0
  /\ tx = [c \in Conns |-> NoTx]
  /\ pc = [c \in Conns |-> "idle"]
  /\ loc = [c \in Conns |-> NoLoc]
  /\ started = 0
  /\ returned = {}
  /\ Booted

\* a later process start: the database holds what an earlier run committed,
\* here add_split_expense(30, "Food", "A", ["A", "B", "C"], "equal")
InitAfterRun ==
  /\ users = {[id |-> 1, name |-> <<"A">>], [id |-> 2, name |-> <<"B">>],
              [id |-> 3, name |-> <<"C">>]}
  /\ categories = SeedCategories
  /\ expenses = {[id |-> 1, amount |-> 3000, category_id |-> 1, paid_by |-> 1,
                  split_type |-> "equal"]}
  /\ expense_splits = {[expense_id |-> 1, user_id |-> 1, amount |-> 1000],
                       [expense_id |-> 1, user_id |-> 2, amount |-> 1000],
                       [expense_id |-> 1, user_id |-> 3, amount |-> 1000]}
  /\ balances = {[from_user |-> 2, to_user |-> 1, amount |-> 1000],
                 [from_user |-> 3, to_user |-> 1, amount |-> 1000]}
  /\ users_id_seq = 3
  /\ expenses_id_seq = 1
  /\ tx = [c \in Conns |-> NoTx]
  /\ pc = [c \in Conns |-> "idle"]
  /\ loc = [c \in Conns |-> NoLoc]
  /\ started = 0
  /\ returned = {<<(<<"A">>), 1>>, <<(<<"B">>), 2>>, <<(<<"C">>), 3>>}
  /\ Booted

\* -------------------------------------------------------------- statements
\* the rows a statement of connection c sees: committed, and its own
VisibleUsers(c) == users \cup tx[c].users

\* the connections whose transaction is open, other than c
Others(c) == {d \in Conns \ {c} : pc[d] # "idle"}

\* the name get_user_id is resolving
CurrentName(c) ==
  IF pc[c] \in {"payer_select", "payer_insert"}
  THEN Strip(loc[c].paid_by)
  ELSE Strip(loc[c].participants[loc[c].idx])

\* the item of split_map the loop is at
CurrentItem(c) == loc[c].split_map[loc[c].k]

\* uid = participant_ids[user]
CurrentUid(c) == loc[c].participant_ids[CurrentItem(c).key]

\* the balances row the upsert is keyed on
CurrentPair(c) == <<CurrentUid(c), loc[c].payer_id>>

PairOf(row) == <<row.from_user, row.to_user>>

\* variant for mutation testing: an INSERT INTO users that never waits
NoNameLock(d, name) == FALSE

\* INSERT INTO users waits while another open transaction holds an
\* uncommitted row of the same name (the UNIQUE index on users.name)
UserNameHeldBy(d, name) == \E r \in tx[d].users : r.name = name

\* variant for mutation testing: an upsert that takes no row lock
NoRowLock(d, pair) == FALSE

\* The upsert is one statement: it takes the row's lock, and waits while
\* another open transaction holds an uncommitted version of the row.
RowLockedBy(d, pair) == \E r \in tx[d].balances : PairOf(r) = pair

\* c's next statement cannot proceed before d's transaction ends
WaitsFor(c, d) ==
  /\ d \in Others(c)
  /\ \/ pc[c] \in {"payer_insert", "part_insert"} /\ UserNameHeldBy(d, CurrentName(c))
     \/ pc[c] = "upsert_balance" /\ RowLockedBy(d, CurrentPair(c))

\* an exception leaves the handler: the transaction block will roll back
Raise(c, kind) ==
  /\ pc' = [pc EXCEPT ![c] = "raise"]
  /\ loc' = [loc EXCEPT ![c].err = kind]

\* for user, amt in split_map.items(): the next item, up to its first await
LoopAt(c, l, k) ==
  IF k > Len(l.split_map)
  THEN /\ pc' = [pc EXCEPT ![c] = "commit"]
       /\ loc' = [loc EXCEPT ![c] = [l EXCEPT !.k = k]]
  ELSE IF l.split_map[k].key \notin DOMAIN l.participant_ids
  THEN /\ pc' = [pc EXCEPT ![c] = "raise"]
       /\ loc' = [loc EXCEPT ![c] = [l EXCEPT !.k = k, !.err = "KeyError"]]
  ELSE /\ pc' = [pc EXCEPT ![c] = "insert_split"]
       /\ loc' = [loc EXCEPT ![c] = [l EXCEPT !.k = k]]

\* get_category_id returned id: the SPLIT LOGIC block, up to INSERT INTO expenses
AfterCategory(c, cat, id, P) ==
  \E amount \in P.amounts, split_type \in P.types, splits \in P.dicts :
    LET res == SplitLogic(amount, split_type, loc[c].participants, splits)
        l == [loc[c] EXCEPT !.category = cat, !.cat_id = id, !.amount = amount,
                            !.split_type = split_type, !.split_map = res.map]
    IN  IF res.err # ""
        THEN /\ pc' = [pc EXCEPT ![c] = "raise"]
             /\ loc' = [loc EXCEPT ![c] = [l EXCEPT !.err = res.err]]
        ELSE /\ pc' = [pc EXCEPT ![c] = "insert_expense"]
             /\ loc' = [loc EXCEPT ![c] = l]

\* get_user_id returned id: the payer's, then each participant's in turn
AfterUser(c, id, P) ==
  /\ returned' = returned \cup {<<CurrentName(c), id>>}
  /\ IF pc[c] \in {"payer_select", "payer_insert"}
     THEN \E ps \in P.lists :
            /\ loc' = [loc EXCEPT ![c].payer_id = id, ![c].participants = ps,
                                  ![c].idx = 1]
            /\ pc' = [pc EXCEPT ![c] = IF ps = <<>> THEN "cat_exact" ELSE "part_select"]
     ELSE LET l == loc[c]
              p == l.participants[l.idx]
          IN  /\ loc' = [loc EXCEPT ![c].participant_ids = (p :> id) @@ l.participant_ids,
                                    ![c].idx = l.idx + 1]
              /\ pc' = [pc EXCEPT ![c] =
                          IF l.idx = Len(l.participants) THEN "cat_exact" ELSE "part_select"]

\* ----------------------------------------------------------------- actions
\* async with pool.acquire() as conn: async with conn.transaction():
Begin(c, P, limit) ==
  /\ pc[c] = "idle"
  /\ started < limit
  /\ started' = started + 1
  /\ \E payer \in P.payers :
       loc' = [loc EXCEPT ![c] = [NoLoc EXCEPT !.paid_by = payer]]
  /\ pc' = [pc EXCEPT ![c] = "payer_select"]
  /\ tx' = [tx EXCEPT ![c] = NoTx]
  /\ UNCHANGED <<db, users_id_seq, expenses_id_seq, returned, boot, gp, result>>

\* get_user_id: SELECT id FROM users WHERE name=$1
UserSelect(c, P) ==
  /\ pc[c] \in {"payer_select", "part_select"}
  /\ LET rows == {r \in VisibleUsers(c) : r.name = CurrentName(c)}
     IN  IF rows # {}
         THEN \E r \in rows : AfterUser(c, r.id, P)
         ELSE /\ pc' = [pc EXCEPT ![c] =
                          IF pc[c] = "payer_select" THEN "payer_insert" ELSE "part_insert"]
              /\ UNCHANGED <<loc, returned>>
  /\ UNCHANGED <<db, users_id_seq, expenses_id_seq, tx, started, boot, gp, result>>

\* get_user_id: INSERT INTO users(name) VALUES ($1) RETURNING id
UserInsert(c, P) ==
  /\ pc[c] \in {"payer_insert", "part_insert"}
  /\ ~ \E d \in Others(c) : UserNameHeldBy(d, CurrentName(c))
  /\ users_id_seq' = users_id_seq + 1
  /\ IF \E r \in VisibleUsers(c) : r.name = CurrentName(c)
     THEN /\ Raise(c, "UniqueViolation")
          /\ UNCHANGED <<tx, returned>>
     ELSE /\ tx' = [tx EXCEPT ![c].users =
                      @ \cup {[id |-> users_id_seq + 1, name |-> CurrentName(c)]}]
          /\ AfterUser(c, users_id_seq + 1, P)
  /\ UNCHANGED <<db, expenses_id_seq, started, boot, gp, result>>

\* get_category_id: SELECT id FROM categories WHERE lower(name) = lower($1)
CategoryExact(c, P) ==
  /\ pc[c] = "cat_exact"
  /\ \E cat \in P.categories :
       LET rows == {r \in categories : Lower(r.name) = Lower(Strip(cat))}
       IN  IF rows # {}
           THEN \E r \in rows : AfterCategory(c, cat, r.id, P)
           ELSE /\ pc' = [pc EXCEPT ![c] = "cat_fuzzy"]
                /\ loc' = [loc EXCEPT ![c].category = cat]
  /\ UNCHANGED <<db, users_id_seq, expenses_id_seq, tx, started, returned, boot, gp,
               result>>

\* get_category_id: SELECT id ... WHERE lower(name) LIKE lower($1) LIMIT 1,
\* with no ORDER BY: any matching row
CategoryFuzzy(c, P) ==
  /\ pc[c] = "cat_fuzzy"
  /\ LET rows == {r \in categories : Contains(r.name, Strip(loc[c].category))}
     IN  IF rows # {}
         THEN \E r \in rows : AfterCategory(c, loc[c].category, r.id, P)
         ELSE Raise(c, "CategoryNotFound")
  /\ UNCHANGED <<db, users_id_seq, expenses_id_seq, tx, started, returned, boot, gp,
               result>>

\* INSERT INTO expenses (...) RETURNING id, under CHECK (amount > 0)
InsertExpense(c) ==
  /\ pc[c] = "insert_expense"
  /\ expenses_id_seq' = expenses_id_seq + 1
  /\ IF loc[c].amount <= 0
     THEN /\ Raise(c, "CheckViolation")
          /\ tx' = tx
     ELSE LET id == expenses_id_seq + 1
              row == [id |-> id, amount |-> loc[c].amount,
                      category_id |-> loc[c].cat_id, paid_by |-> loc[c].payer_id,
                      split_type |-> loc[c].split_type]
          IN  /\ tx' = [tx EXCEPT ![c].expenses = @ \cup {row}]
              /\ LoopAt(c, [loc[c] EXCEPT !.expense_id = id], 1)
  /\ UNCHANGED <<db, users_id_seq, started, returned, boot, gp, result>>

\* variant for mutation testing: the loop without its "if uid != payer_id"
AlwaysOwes(uid, payer_id) == TRUE

\* if uid != payer_id:
OwesPayer(uid, payer_id) == uid # payer_id

\* INSERT INTO expense_splits (expense_id,user_id,amount), under
\* UNIQUE(expense_id, user_id); then "if uid != payer_id"
InsertSplit(c) ==
  /\ pc[c] = "insert_split"
  /\ LET row == [expense_id |-> loc[c].expense_id, user_id |-> CurrentUid(c),
                 amount |-> CurrentItem(c).val]
     IN  IF \E r \in expense_splits \cup tx[c].splits :
               r.expense_id = row.expense_id /\ r.user_id = row.user_id
         THEN /\ Raise(c, "UniqueViolation")
              /\ tx' = tx
         ELSE /\ tx' = [tx EXCEPT ![c].splits = @ \cup {row}]
              /\ IF OwesPayer(CurrentUid(c), loc[c].payer_id)
                 THEN /\ pc' = [pc EXCEPT ![c] = "upsert_balance"]
                      /\ loc' = loc
                 ELSE LoopAt(c, loc[c], loc[c].k + 1)
  /\ UNCHANGED <<db, users_id_seq, expenses_id_seq, started, returned, boot, gp, result>>

\* variant for mutation testing: the INSERT without its ON CONFLICT clause
InsertOnly(rows, pair, amt) ==
  rows \cup {[from_user |-> pair[1], to_user |-> pair[2], amount |-> amt]}

\* the balances rows after INSERT ... ON CONFLICT (from_user,to_user) DO
\* UPDATE SET amount = balances.amount + EXCLUDED.amount, on the rows seen
Upsert(rows, pair, amt) ==
  IF \E r \in rows : PairOf(r) = pair
  THEN {IF PairOf(r) = pair THEN [r EXCEPT !.amount = r.amount + amt] ELSE r : r \in rows}
  ELSE rows \cup {[from_user |-> pair[1], to_user |-> pair[2], amount |-> amt]}

\* the latest version of each balances row, as connection c sees them
VisibleBalances(c) ==
  {r \in balances : ~ \E w \in tx[c].balances : PairOf(w) = PairOf(r)} \cup tx[c].balances

\* the upsert statement of the loop
UpsertBalance(c) ==
  /\ pc[c] = "upsert_balance"
  /\ ~ \E d \in Others(c) : RowLockedBy(d, CurrentPair(c))
  /\ LET after == Upsert(VisibleBalances(c), CurrentPair(c), CurrentItem(c).val)
     IN  tx' = [tx EXCEPT ![c].balances =
                  {r \in after : PairOf(r) = CurrentPair(c)} \cup
                  {r \in @ : PairOf(r) # CurrentPair(c)}]
  /\ LoopAt(c, loc[c], loc[c].k + 1)
  /\ UNCHANGED <<db, users_id_seq, expenses_id_seq, started, returned, boot, gp, result>>

\* the balances table once transaction t's versions replace the committed ones
MergeBalances(t) ==
  {r \in balances : ~ \E w \in t.balances : PairOf(w) = PairOf(r)} \cup t.balances

\* leaving "async with conn.transaction()" normally: COMMIT
Commit(c) ==
  /\ pc[c] = "commit"
  /\ users' = users \cup tx[c].users
  /\ expenses' = expenses \cup tx[c].expenses
  /\ expense_splits' = expense_splits \cup tx[c].splits
  /\ balances' = MergeBalances(tx[c])
  /\ tx' = [tx EXCEPT ![c] = NoTx]
  /\ pc' = [pc EXCEPT ![c] = "idle"]
  /\ loc' = [loc EXCEPT ![c] = NoLoc]
  /\ gp' = [gp EXCEPT ![c] = NoGet]
  /\ UNCHANGED <<categories, users_id_seq, expenses_id_seq, started, returned, boot, result>>

\* variant for mutation testing: a handler that commits on an exception
KeptOnError(t) == t

\* what ROLLBACK keeps of the transaction's rows: nothing
RolledBack(t) == NoTx

\* leaving "async with conn.transaction()" by an exception: ROLLBACK
Rollback(c) ==
  /\ pc[c] = "raise"
  /\ users' = users \cup RolledBack(tx[c]).users
  /\ expenses' = expenses \cup RolledBack(tx[c]).expenses
  /\ expense_splits' = expense_splits \cup RolledBack(tx[c]).splits
  /\ balances' = MergeBalances(RolledBack(tx[c]))
  /\ tx' = [tx EXCEPT ![c] = NoTx]
  /\ pc' = [pc EXCEPT ![c] = "idle"]
  /\ loc' = [loc EXCEPT ![c] = NoLoc]
  /\ gp' = [gp EXCEPT ![c] = NoGet]
  /\ UNCHANGED <<categories, users_id_seq, expenses_id_seq, started, returned, boot, result>>

\* c is on a cycle of waiting transactions
RECURSIVE Reaches(_, _, _)
Reaches(c, d, n) ==
  \/ WaitsFor(c, d)
  \/ n > 0 /\ \E e \in Conns : WaitsFor(c, e) /\ Reaches(e, d, n - 1)

InDeadlock(c) == Reaches(c, c, Cardinality(Conns))

\* the server's deadlock detector ends one waiting statement of a cycle with
\* an error (asyncpg raises DeadlockDetectedError)
DeadlockVictim(c) ==
  /\ InDeadlock(c)
  /\ Raise(c, "DeadlockDetected")
  /\ UNCHANGED <<db, users_id_seq, expenses_id_seq, tx, started, returned, boot, gp,
               result>>

\* ----------------------------------------------------------------- get_pool
\* the keys of categories.json, in file order
SeedNames == <<<<"F", "o", "o", "d">>, <<"F", "u", "e", "l">>>>

\* get_pool from "if not DB_READY" to its next await, or to its return
AfterPoolCheck(c, tool, ready) ==
  gp' = [gp EXCEPT ![c] =
           [tool |-> tool, at |-> IF ready THEN "done" ELSE "acquire", k |-> 0]]

\* pool = await get_pool(), when get_pool has to await: up to its first await
Enter(c, tool, limit) ==
  /\ pc[c] = "idle"
  /\ gp[c].at = "none"
  /\ started < limit
  /\ POOL = 0 \/ ~ DB_READY
  /\ IF POOL = 0
     THEN gp' = [gp EXCEPT ![c] = [tool |-> tool, at |-> "create_pool", k |-> 0]]
     ELSE AfterPoolCheck(c, tool, DB_READY)
  /\ UNCHANGED <<db, users_id_seq, expenses_id_seq, tx, pc, loc, started, returned, boot,
               result>>

\* POOL = await asyncpg.create_pool(...)
CreatePool(c) ==
  /\ gp[c].at = "create_pool"
  /\ POOL' = POOL + 1
  /\ AfterPoolCheck(c, gp[c].tool, DB_READY)
  /\ UNCHANGED <<db, users_id_seq, expenses_id_seq, tx, pc, loc, started, returned,
               DB_READY, schema, categories_id_seq, result>>

\* async with POOL.acquire() as conn
AcquireBoot(c) ==
  /\ gp[c].at = "acquire"
  /\ gp' = [gp EXCEPT ![c].at = "create_sql"]
  /\ UNCHANGED <<db, users_id_seq, expenses_id_seq, tx, pc, loc, started, returned, boot,
               result>>

\* variant for mutation testing: DB_READY = True moved into the seeding loop
ReadyInLoop(k) == TRUE

\* DB_READY = True stands after the loop: it runs once the last key is in
ReadyAfterLoop(k) == k >= Len(SeedNames)

\* await conn.execute(CREATE_SQL): every table IF NOT EXISTS
CreateSchema(c) ==
  /\ gp[c].at = "create_sql"
  /\ schema' = TRUE
  /\ gp' = [gp EXCEPT ![c] = IF Len(SeedNames) = 0
                             THEN [@ EXCEPT !.at = "done"]
                             ELSE [@ EXCEPT !.at = "seed", !.k = 1]]
  /\ DB_READY' = IF Len(SeedNames) = 0 THEN TRUE ELSE DB_READY
  /\ UNCHANGED <<db, users_id_seq, expenses_id_seq, tx, pc, loc, started, returned, POOL,
               categories_id_seq, result>>

\* INSERT INTO categories(name) VALUES ($1) ON CONFLICT (name) DO NOTHING, for
\* the k-th key; the sequence moves on also when the name is there
SeedCategory(c) ==
  /\ gp[c].at = "seed"
  /\ LET k == gp[c].k
         name == SeedNames[k]
     IN  /\ categories_id_seq' = categories_id_seq + 1
         /\ categories' =
              IF \E r \in categories : r.name = name
              THEN categories
              ELSE categories \cup {[id |-> categories_id_seq + 1, name |-> name]}
         /\ DB_READY' = (DB_READY \/ ReadyAfterLoop(k))
         /\ gp' = [gp EXCEPT ![c] = IF k = Len(SeedNames)
                                    THEN [@ EXCEPT !.at = "done", !.k = 0]
                                    ELSE [@ EXCEPT !.k = k + 1]]
  /\ UNCHANGED <<users, expenses, expense_splits, balances, users_id_seq,
               expenses_id_seq, tx, pc, loc, started, returned, POOL, schema, result>>

\* get_pool has returned to call c of tool: it did so without an await, or
\* after the awaits above
PoolReturned(c, tool) ==
  \/ gp[c] = [tool |-> tool, at |-> "done", k |-> 0]
  \/ gp[c].at = "none" /\ POOL # 0 /\ DB_READY

\* ------------------------------------------------------------ the read tools
\* the orders in which the rows of a result can come
Enum(S) ==
  {s \in [1..Cardinality(S) -> S] :
     \A i, j \in 1..Cardinality(S) : i # j => s[i] # s[j]}

\* the characters of the stored names, in the order every collation has
CharRank ==
  ("A" :> 1) @@ ("B" :> 2) @@ ("C" :> 3) @@ ("F" :> 4) @@ ("d" :> 5) @@
  ("e" :> 6) @@ ("l" :> 7) @@ ("o" :> 8) @@ ("u" :> 9)

RECURSIVE NameLess(_, _)
\* ORDER BY name
NameLess(a, b) ==
  IF a = <<>> THEN b # <<>>
  ELSE IF b = <<>> THEN FALSE
  ELSE IF Head(a) = Head(b) THEN NameLess(Tail(a), Tail(b))
  ELSE CharRank[Head(a)] < CharRank[Head(b)]

\* async with pool.acquire() as conn: rows = await conn.fetch(...); return
Return(c, tool, rows, limit) ==
  /\ pc[c] = "idle"
  /\ PoolReturned(c, tool)
  /\ started < limit
  /\ started' = started + 1
  /\ result' = [result EXCEPT ![c] = [tool |-> tool, rows |-> rows]]
  /\ gp' = [gp EXCEPT ![c] = NoGet]
  /\ UNCHANGED <<db, users_id_seq, expenses_id_seq, tx, pc, loc, returned, boot>>

\* SELECT id, name FROM users ORDER BY name
list_users(c, limit) ==
  \E s \in Enum(users) :
    /\ \A i, j \in 1..Len(s) : i < j => NameLess(s[i].name, s[j].name)
    /\ Return(c, "list_users", s, limit)

\* SELECT name FROM categories ORDER BY name
list_categories(c, limit) ==
  \E s \in Enum({r.name : r \in categories}) :
    /\ \A i, j \in 1..Len(s) : i < j => NameLess(s[i], s[j])
    /\ Return(c, "list_categories", s, limit)

\* balances b JOIN users u1 ON u1.id = b.from_user JOIN users u2 ON u2.id =
\* b.to_user, with the amount as a float
BalancesJoin ==
  {[from |-> u1.name, to |-> u2.name, amount |-> b.amount] :
     <<b, u1, u2>> \in {t \in balances \X users \X users :
                         t[2].id = t[1].from_user /\ t[3].id = t[1].to_user}}

\* SELECT ... ORDER BY b.amount DESC: rows of one amount come in any order
get_balances(c, limit) ==
  \E s \in Enum(BalancesJoin) :
    /\ \A i, j \in 1..Len(s) : i < j => s[i].amount >= s[j].amount
    /\ Return(c, "get_balances", s, limit)

\* ------------------------------------------------------- add_split_expense
Step(c, P, limit) ==
  \/ Begin(c, P, limit)
  \/ UserSelect(c, P)
  \/ UserInsert(c, P)
  \/ CategoryExact(c, P)
  \/ CategoryFuzzy(c, P)
  \/ InsertExpense(c)
  \/ InsertSplit(c)
  \/ UpsertBalance(c)
  \/ Commit(c)
  \/ Rollback(c)

\* the steps of a call inside its transaction
Transaction(c, P) ==
  \/ UserSelect(c, P)
  \/ UserInsert(c, P)
  \/ CategoryExact(c, P)
  \/ CategoryFuzzy(c, P)
  \/ InsertExpense(c)
  \/ InsertSplit(c)
  \/ UpsertBalance(c)
  \/ Commit(c)
  \/ Rollback(c)

\* the steps of a call when every name it passes is in users already:
\* get_user_id finds the row and never inserts
StepKnown(c, P, limit) ==
  \/ Begin(c, P, limit)
  \/ UserSelect(c, P)
  \/ CategoryExact(c, P)
  \/ CategoryFuzzy(c, P)
  \/ InsertExpense(c)
  \/ InsertSplit(c)
  \/ UpsertBalance(c)
  \/ Commit(c)
  \/ Rollback(c)

\* ---------------------------------------------------------- specifications
A == <<"A">>
ASp == <<" ", "A">>
B == <<"B">>
C == <<"C">>

\* one call on each connection, the calls running concurrently, on a first
\* process start
ConcInputs ==
  [payers |-> {A, ASp, B},
   lists |-> ParticipantLists({A, ASp, B}),
   categories |-> {<<"f", "o", "o", "d">>, <<"Z">>},
   amounts |-> {1000},
   types |-> {"equal", "unequal", "bogus"},
   dicts |-> SplitDicts({A, B}, {50})]

Next == \E c \in Conns : Step(c, ConcInputs, Cardinality(Conns)) \/ DeadlockVictim(c)

Spec == Init /\ [][Next]_vars

\* one call on each connection, of any tool, the calls running concurrently,
\* among the users an earlier run has created
RerunInputs ==
  [payers |-> {A},
   lists |-> ParticipantLists({B, C}),
   categories |-> {<<"f", "o", "o", "d">>, <<"Z">>},
   amounts |-> {1000},
   types |-> {"equal", "unequal"},
   dicts |-> SplitDicts({B}, {50})]

RerunNext ==
  \E c \in Conns :
    \/ StepKnown(c, RerunInputs, Cardinality(Conns))
    \/ DeadlockVictim(c)
    \/ list_users(c, Cardinality(Conns))
    \/ list_categories(c, Cardinality(Conns))
    \/ get_balances(c, Cardinality(Conns))

RerunSpec == InitAfterRun /\ [][RerunNext]_vars

\* a process start on an empty database: the first calls of the four tools
\* arrive together and go through get_pool, then the tools run
InitFresh ==
  /\ users = {}
  /\ categories = {}
  /\ expenses = {}
  /\ expense_splits = {}
  /\ balances = {}
  /\ users_id_seq = 0
  /\ expenses_id_seq = 0
  /\ tx = [c \in Conns |-> NoTx]
  /\ pc = [c \in Conns |-> "idle"]
  /\ loc = [c \in Conns |-> NoLoc]
  /\ started = 0
  /\ returned = {}
  /\ POOL = 0
  /\ DB_READY = FALSE
  /\ schema = FALSE
  /\ categories_id_seq = 0
  /\ gp = [c \in Conns |-> NoGet]
  /\ result = [c \in Conns |-> NoResult]

Tools == {"list_users", "list_categories", "add_split_expense", "get_balances"}

ToolInputs ==
  [payers |-> {A, B},
   lists |-> {<<A>>, <<B>>},
   categories |-> {<<"f", "o", "o", "d">>, <<"F">>, <<"Z">>},
   amounts |-> {1000},
   types |-> {"equal"},
   dicts |-> {<<>>}]

\* add_split_expense once its get_pool has returned
BeginTool(c, P, limit) == PoolReturned(c, "add_split_expense") /\ Begin(c, P, limit)

\* one call on each of the tasks
ToolNext ==
  \E c \in Conns :
    \/ \E tool \in Tools : Enter(c, tool, Cardinality(Conns))
    \/ CreatePool(c)
    \/ AcquireBoot(c)
    \/ CreateSchema(c)
    \/ SeedCategory(c)
    \/ list_users(c, Cardinality(Conns))
    \/ list_categories(c, Cardinality(Conns))
    \/ get_balances(c, Cardinality(Conns))
    \/ BeginTool(c, ToolInputs, Cardinality(Conns))
    \/ Transaction(c, ToolInputs)
    \/ DeadlockVictim(c)

ToolSpec == InitFresh /\ [][ToolNext]_vars

\* MaxCalls calls, one after the other on connection 1, on a first process
\* start
SeqInputs ==
  [payers |-> {A, B, C},
   lists |-> ParticipantLists({A, ASp, B, C}),
   categories |-> {<<"f", "o", "o", "d">>, <<"o", "o">>, <<"Z">>},
   amounts |-> {0, 1016},
   types |-> {"equal", "unequal", "percent", "bogus"},
   dicts |-> SplitDicts({A, ASp, B, C}, {33})]

SeqNext == Step(1, SeqInputs, MaxCalls)

SeqSpec == Init /\ [][SeqNext]_vars

\* ------------------------------------------------------------------ claims
RECURSIVE SumAmounts(_)
SumAmounts(rows) ==
  IF rows = {} THEN 0
  ELSE LET r == CHOOSE x \in rows : TRUE IN r.amount + SumAmounts(rows \ {r})

HasRow(rows, pair) == \E r \in rows : PairOf(r) = pair

AmountOf(rows, pair) == SumAmounts({r \in rows : PairOf(r) = pair})

DictGet(d, k) == d[CHOOSE i \in 1..Len(d) : d[i].key = k].val

PayerOf(expense_id) == (CHOOSE e \in expenses : e.id = expense_id).paid_by

CommitStep(c) == pc[c] = "commit" /\ pc'[c] = "idle"

Abs(x) == IF x < 0 THEN -x ELSE x

\* every committed split belongs to a committed expense, every committed
\* expense has splits, and every split of a non-payer has its balances row
TablesWhole ==
  /\ \A s \in expense_splits : \E e \in expenses : e.id = s.expense_id
  /\ \A e \in expenses : \E s \in expense_splits : s.expense_id = e.id
  /\ \A s \in expense_splits : \A e \in expenses :
       e.id = s.expense_id /\ s.user_id # e.paid_by
         => HasRow(balances, <<s.user_id, e.paid_by>>)

\* C1: atomicity.  The expenses, expense_splits and balances tables change
\* only in the step that commits a call, so a call that fails at any point
\* leaves them as they were; and the committed tables never hold an expense
\* without splits, a split without its expense, or a non-payer's split
\* without its balances row.
C1_Atomicity ==
  /\ []TablesWhole
  /\ [][<<expenses, expense_splits, balances>>' # <<expenses, expense_splits, balances>>
          => \E c \in Conns : CommitStep(c)]_vars

\* a call has raised after writing its expense, a split and a balance, while
\* the tables hold an earlier call's rows
C1_Witness ==
  \E c \in Conns :
    /\ pc[c] = "raise"
    /\ tx[c].expenses # {} /\ tx[c].splits # {} /\ tx[c].balances # {}
    /\ expenses # {} /\ balances # {}

\* the committed splits that make debtor owe creditor
OwedSplits(debtor, creditor) ==
  {s \in expense_splits : s.user_id = debtor /\ PayerOf(s.expense_id) = creditor}

\* C2: balance accumulation.  There is at most one balances row per directed
\* pair (debtor, creditor), there is one exactly when some committed expense
\* paid by the creditor has a split of the debtor, and its amount is the sum
\* of those splits.
C2_Accumulation ==
  /\ \A b1, b2 \in balances : PairOf(b1) = PairOf(b2) => b1 = b2
  /\ \A d, cr \in 1..users_id_seq :
       d # cr =>
         /\ HasRow(balances, <<d, cr>>) <=> OwedSplits(d, cr) # {}
         /\ \A b \in balances :
              PairOf(b) = <<d, cr>> => b.amount = SumAmounts(OwedSplits(d, cr))

\* a balances row that accumulates the splits of two expenses
C2_Witness ==
  \E b \in balances : Cardinality(OwedSplits(b.from_user, b.to_user)) = 2

\* the shares of open transaction c whose upsert on pair has run
OwnShares(c, pair) ==
  {s \in tx[c].splits :
     /\ s.user_id = pair[1]
     /\ loc[c].payer_id = pair[2]
     /\ ~ (pc[c] = "upsert_balance" /\ CurrentUid(c) = s.user_id)}

\* C3: no lost update.  When a call commits, every balances row it upserted
\* ends at the amount the row has at that moment (whatever other calls have
\* committed to it meanwhile) plus this call's share for the debtor.
C3_NoLostUpdate ==
  [][\A c \in Conns :
       CommitStep(c) =>
         \A w \in tx[c].balances :
           AmountOf(balances', PairOf(w)) =
             AmountOf(balances, PairOf(w)) + SumAmounts(OwnShares(c, PairOf(w)))]_vars

\* a call is about to commit a balances row that another call, running at the
\* same time, is waiting to upsert, the row already holding a committed amount
C3_Witness ==
  \E c, d \in Conns :
    /\ pc[c] = "commit"
    /\ pc[d] = "upsert_balance"
    /\ RowLockedBy(c, CurrentPair(d))

\* C4: no self-loops.  No balances row, committed or written by an open
\* transaction, has from_user = to_user.
C4_NoSelfLoops ==
  \A b \in balances \cup UNION {tx[c].balances : c \in Conns} :
    b.from_user # b.to_user

\* a call about to commit whose payer is among its participants under a name
\* that differs by whitespace, and which has written a balances row
C4_Witness ==
  \E c \in Conns :
    /\ pc[c] = "commit"
    /\ tx[c].balances # {}
    /\ \E i \in 1..Len(loc[c].participants) :
         /\ loc[c].participants[i] # loc[c].paid_by
         /\ Strip(loc[c].participants[i]) = Strip(loc[c].paid_by)

\* C5 as claimed: when a call with payer Y commits, every participant P
\* other than Y has a share, and the row (P -> Y) exists afterwards with its
\* earlier amount plus that share; every other row is left as it was.
C5_Directional ==
  \A c \in Conns :
    pc[c] = "commit" =>
      LET l == loc[c]
          after == MergeBalances(tx[c])
          debtors == {l.participant_ids[l.participants[i]] :
                        i \in 1..Len(l.participants)} \ {l.payer_id}
      IN  /\ \A i \in 1..Len(l.participants) :
               LET p == l.participants[i]
                   uid == l.participant_ids[p]
               IN  uid # l.payer_id =>
                     /\ p \in DictKeys(l.split_map)
                     /\ HasRow(after, <<uid, l.payer_id>>)
                     /\ AmountOf(after, <<uid, l.payer_id>>) =
                          AmountOf(balances, <<uid, l.payer_id>>) + DictGet(l.split_map, p)
          /\ \A b \in balances \cup after :
               ~ (b.to_user = l.payer_id /\ b.from_user \in debtors)
                 => b \in balances /\ b \in after

\* C6 as claimed: the splits of a call about to commit sum to its amount
\* within one cent per participant.
C6_SplitSum ==
  \A c \in Conns :
    pc[c] = "commit" =>
      Abs(SumAmounts(tx[c].splits) - loc[c].amount) <= Len(loc[c].participants)

\* C7 as claimed: the splits of an equal-split call about to commit are all
\* the same amount and sum to the amount within half a cent per participant.
C7_EqualSplit ==
  \A c \in Conns :
    pc[c] = "commit" /\ loc[c].split_type = "equal" =>
      /\ \A s1, s2 \in tx[c].splits : s1.amount = s2.amount
      /\ 2 * Abs(SumAmounts(tx[c].splits) - loc[c].amount) <= Len(loc[c].participants)

\* C8 as claimed: no call whose participants list holds the same name twice
\* reaches its commit.
C8_DuplicateParticipant ==
  \A c \in Conns :
    pc[c] = "commit" =>
      \A i, j \in 1..Len(loc[c].participants) :
        i # j => loc[c].participants[i] # loc[c].participants[j]

\* C9 as claimed: an unequal or percent call about to commit has a split row
\* for each of its participants.
C9_MissingShare ==
  \A c \in Conns :
    pc[c] = "commit" /\ loc[c].split_type \in {"unequal", "percent"} =>
      \A i \in 1..Len(loc[c].participants) :
        \E s \in tx[c].splits :
          s.user_id = loc[c].participant_ids[loc[c].participants[i]]

\* the <<name, id>> pairs call c has from get_user_id
ResolvedBy(c) ==
  {<<Strip(loc[c].paid_by), loc[c].payer_id>>} \cup
  {<<Strip(p), loc[c].participant_ids[p]>> : p \in DOMAIN loc[c].participant_ids}

\* no two users rows, committed or written by an open transaction, have one
\* name
OneRowPerName ==
  \A u1, u2 \in users \cup UNION {tx[c].users : c \in Conns} :
    u1.name = u2.name => u1 = u2

\* C10 as claimed: all resolutions of one name, over all calls, return one id,
\* and users holds at most one row per name.
C10_Original ==
  /\ OneRowPerName
  /\ \A x, y \in returned : x[1] = y[1] => x[2] = y[2]

\* C10, amended: users holds at most one row per name and never loses or
\* changes a row; and when a call commits, every id it resolved a name to is
\* the id of the users row of that name, so all resolutions of one name by
\* calls that commit return one id.
C10_Idempotent ==
  /\ []OneRowPerName
  /\ [][/\ users \subseteq users'
        /\ \A c \in Conns :
             CommitStep(c) =>
               \A x \in ResolvedBy(c) : [id |-> x[2], name |-> x[1]] \in users']_vars

\* a call about to commit that resolved one name twice, under two spellings,
\* to the row an earlier call committed
C10_Witness ==
  \E c \in Conns :
    /\ pc[c] = "commit"
    /\ \E u \in users : u.name = Strip(loc[c].paid_by)
    /\ \E p \in DOMAIN loc[c].participant_ids :
         p # loc[c].paid_by /\ Strip(p) = Strip(loc[c].paid_by)

\* call c is at a statement of get_user_id
ResolvingUser(c) ==
  pc[c] \in {"payer_select", "payer_insert", "part_select", "part_insert"}

\* C11 as claimed: no statement of get_user_id ends in an error; each either
\* finds the row or creates it.
C11_NeverFails ==
  [][\A c \in Conns : ResolvingUser(c) => pc'[c] # "raise"]_vars

RollbackStep(c) == pc[c] = "raise" /\ pc'[c] = "idle"

\* C12 as claimed: the users rows a call created are in the users table after
\* the call has failed.
C12_Original ==
  [][\A c \in Conns : RollbackStep(c) => tx[c].users \subseteq users']_vars

\* C12, amended: a call that fails leaves users, like expenses,
\* expense_splits and balances, as it was: the users rows it created are
\* rolled back with the rest, and users changes only when a call commits.
C12_UsersRollBack ==
  [][(\A c \in Conns :
        RollbackStep(c) =>
          /\ users' = users
          /\ <<expenses, expense_splits, balances>>' = <<expenses, expense_splits, balances>>)
     /\ (users' # users => \E c \in Conns : CommitStep(c))]_vars

\* a call that created users rows has failed on an unknown category
C12_Witness ==
  \E c \in Conns :
    /\ pc[c] = "raise"
    /\ loc[c].err = "CategoryNotFound"
    /\ tx[c].users # {}

\* C13 as claimed: two resolutions of one category name return one id (the
\* categories table is the same at both: it changes only while get_pool
\* seeds it, before any tool runs).
C13_Deterministic ==
  \A c, d \in Conns :
    (/\ loc[c].cat_id # 0
     /\ loc[d].cat_id # 0
     /\ Strip(loc[c].category) = Strip(loc[d].category))
    => loc[c].cat_id = loc[d].cat_id

\* call c, running tool, takes this step: a step of its get_pool, or its
\* query and return
ToolStep(c, tool) ==
  \/ gp[c].tool = tool /\ gp'[c] # gp[c]
  \/ result'[c] # result[c] /\ result'[c].tool = tool

\* C14 as claimed: no step of a get_balances call, its get_pool included,
\* changes the users, categories, expenses, expense_splits or balances table.
C14_ReadOnly ==
  [][\A c \in Conns : ToolStep(c, "get_balances") => db' = db]_vars

SeqRange(s) == {s[i] : i \in 1..Len(s)}

\* C15 as claimed: what get_balances returns has one entry per balances row,
\* is sorted by amount descending, and is the sequence any other get_balances
\* call returned for the same rows.
C15_Ordering ==
  [][\A c \in Conns :
       (result'[c] # result[c] /\ result'[c].tool = "get_balances") =>
         LET rows == result'[c].rows
         IN  /\ Len(rows) = Cardinality(balances)
             /\ \A i, j \in 1..Len(rows) : i < j => rows[i].amount >= rows[j].amount
             /\ \A d \in Conns :
                  (/\ result[d].tool = "get_balances"
                   /\ SeqRange(result[d].rows) = SeqRange(rows))
                  => result[d].rows = rows]_vars

\* C16: expense rows are created once and never change.  No step removes or
\* changes a row of expenses or expense_splits; the step that commits a call
\* adds exactly one expenses row; and no other step (a failing call's
\* rollback, a read tool, get_pool) adds any.
C16_Immutable ==
  [][/\ expenses \subseteq expenses'
     /\ expense_splits \subseteq expense_splits'
     /\ \A c \in Conns : CommitStep(c) => Cardinality(expenses' \ expenses) = 1
     /\ (\A c \in Conns : ~ CommitStep(c)) =>
          expenses' = expenses /\ expense_splits' = expense_splits]_vars

\* two calls have committed an expense each, next to the earlier run's row
C16_Witness == Cardinality(expenses) = 3

\* C17 as claimed: the amount of a balances row (A -> B) is what A owes B from
\* the expenses B paid minus what B owes A from the expenses A paid.
C17_Net ==
  \A b \in balances :
    b.amount = SumAmounts(OwedSplits(b.from_user, b.to_user))
                 - SumAmounts(OwedSplits(b.to_user, b.from_user))

\* the schema is there and every seed category is in categories
BootstrapDone ==
  /\ schema
  /\ \A i \in 1..Len(SeedNames) : \E r \in categories : r.name = SeedNames[i]

\* C18: bootstrap before use.  DB_READY is true only when the schema exists
\* and every seed category is inserted; a transaction is open only then; and
\* every step in which a tool starts its query or transaction (started moves)
\* is taken then.
C18_BootstrapFirst ==
  /\ [](DB_READY => BootstrapDone)
  /\ [](\A c \in Conns : pc[c] # "idle" => BootstrapDone)
  /\ [][started' # started => BootstrapDone]_vars

\* a tool is inside its transaction while another first call is still seeding
\* the categories in its own get_pool
C18_Witness ==
  \E c, d \in Conns : pc[c] # "idle" /\ gp[d].at = "seed"

\* C19 as claimed: at most one pool is ever created.
C19_SinglePool == POOL <= 1

\* C20 as claimed: no transaction is ever on a cycle of transactions waiting
\* for each other.
C20_NoDeadlock == \A c \in Conns : ~ InDeadlock(c)

=============================================================================
